---- MODULE Spec2Model ----
(***************************************************************************)
(* Model of the e-commerce dataset generator (src/data/generate_bigdata.py)*)
(* and of the palette functions of the Arrakis Night plot theme            *)
(* (src/themes/plot_arrakis_night_style.py).                               *)
(*                                                                         *)
(* Three specifications share the module:                                  *)
(*   Spec        the generator script, run once or twice on one machine    *)
(*   SpecRecord  one transaction record built from arbitrary generator     *)
(*               outputs (the numeric and calendar computations)           *)
(*   SpecPalette calls of get_palette / get_water_palette                  *)
(***************************************************************************)
EXTENDS Integers, Sequences, FiniteSets, TLC

(***************************************************************************)
(* IEEE-754 binary64 arithmetic, as far as the script uses it.             *)
(* A positive double is [e, m]: m is the 53-bit significand, most          *)
(* significant bit first (m[1] = 1), and the value is                      *)
(*   SUM_i m[i] * 2^(e - (i - 1)).                                         *)
(* Significands are bit sequences because they do not fit a machine        *)
(* integer of the model checker.                                           *)
(***************************************************************************)
Precision == 53

\* The w-bit binary numeral of v (0 <= v < 2^w), most significant bit first.
FixedBits(v, w) == [i \in 1..w |-> (v \div 2^(w - i)) % 2]

BitLen(k) == CHOOSE L \in 1..31 : 2^(L - 1) <= k /\ (L = 31 \/ k < 2^L)

\* The binary numeral of k without leading zeros (empty for k = 0).
Bits(k) == IF k <= 0 THEN <<>> ELSE FixedBits(k, BitLen(k))

RECURSIVE BitsVal(_)
\* The integer a bit sequence of at most 31 bits denotes.
BitsVal(s) ==
    IF Len(s) = 0 THEN 0
    ELSE IF Len(s) = 1 THEN s[1]
    ELSE LET h == Len(s) \div 2
         IN  BitsVal(SubSeq(s, 1, h)) * 2^(Len(s) - h)
               + BitsVal(SubSeq(s, h + 1, Len(s)))

Zeros(k) == [i \in 1..k |-> 0]

AnyOne(s) == \E i \in 1..Len(s) : s[i] = 1

\* s + 1 on a bit sequence that is not all ones.
IncBits(s) ==
    LET z == CHOOSE i \in 1..Len(s) :
                 s[i] = 0 /\ \A j \in (i + 1)..Len(s) : s[j] = 1
    IN  [i \in 1..Len(s) |-> IF i < z THEN s[i] ELSE IF i = z THEN 1 ELSE 0]

\* Round the exact positive value with bits s (s[1] = 1, leading bit worth
\* 2^e), plus a nonzero remainder below the last bit iff `sticky`, to the
\* nearest double, ties to even.
RoundNearestEven(s, e, sticky) ==
    IF Len(s) <= Precision
    THEN [e |-> e, m |-> s \o Zeros(Precision - Len(s))]
    ELSE LET kept  == SubSeq(s, 1, Precision)
             guard == s[Precision + 1]
             rest  == sticky \/ AnyOne(SubSeq(s, Precision + 2, Len(s)))
             up    == guard = 1 /\ (rest \/ kept[Precision] = 1)
         IN  IF ~up THEN [e |-> e, m |-> kept]
             ELSE IF \A i \in 1..Precision : kept[i] = 1
                  THEN [e |-> e + 1, m |-> <<1>> \o Zeros(Precision - 1)]
                  ELSE [e |-> e, m |-> IncBits(kept)]

\* The double equal to num / 2^shift, for an integer 0 < num < 2^31 (an
\* exact conversion).
FromDyadic(num, shift) ==
    LET b == Bits(num)
    IN  RoundNearestEven(b, Len(b) - 1 - shift, FALSE)

FromInt(k) == FromDyadic(k, 0)

\* x * q in binary64 for a double x and an integer-valued double
\* 1 <= q < 2^12: the significand, as three 18-bit limbs, times q, rounded.
FMul(x, q) ==
    LET Limb == 18
        s   == x.m \o <<0>>
        l2  == BitsVal(SubSeq(s, 1, Limb))
        l1  == BitsVal(SubSeq(s, Limb + 1, 2 * Limb))
        l0  == BitsVal(SubSeq(s, 2 * Limb + 1, 3 * Limb))
        t0  == l0 * q
        t1  == l1 * q + t0 \div 2^Limb
        t2  == l2 * q + t1 \div 2^Limb
        p   == Bits(t2) \o FixedBits(t1 % 2^Limb, Limb)
                        \o FixedBits(t0 % 2^Limb, Limb)
    IN  RoundNearestEven(p, x.e + Len(p) - (Precision + 1), FALSE)

\* k / d in binary64 for integer-valued doubles k >= d > 0 (d < 2^12):
\* the integer quotient, then 54 fraction bits by long division, 18 bits
\* at a time, rounded.
FDivInt(k, d) ==
    LET Limb == 18
        q0 == Bits(k \div d)
        r0 == k % d
        f1 == (r0 * 2^Limb) \div d
        r1 == (r0 * 2^Limb) % d
        f2 == (r1 * 2^Limb) \div d
        r2 == (r1 * 2^Limb) % d
        f3 == (r2 * 2^Limb) \div d
        r3 == (r2 * 2^Limb) % d
    IN  RoundNearestEven(q0 \o FixedBits(f1, Limb) \o FixedBits(f2, Limb)
                            \o FixedBits(f3, Limb),
                         Len(q0) - 1, r3 # 0)

\* rint(x): the nearest integer, ties to even, of a double 1 <= x < 2^30.
Rint(x) ==
    LET ip    == BitsVal(SubSeq(x.m, 1, x.e + 1))
        guard == x.m[x.e + 2]
        rest  == AnyOne(SubSeq(x.m, x.e + 3, Precision))
    IN  IF guard = 1 /\ (rest \/ ip % 2 = 1) THEN ip + 1 ELSE ip

\* The double with the nonzero bits s, s[1] worth 2^e (leading zeros
\* allowed), rounded to nearest when s has more than 53 significant bits.
FromBits(s, e) ==
    LET z == CHOOSE i \in 1..Len(s) : s[i] = 1 /\ \A j \in 1..(i - 1) : s[j] = 0
    IN  RoundNearestEven(SubSeq(s, z, Len(s)), e - (z - 1), FALSE)

\* a + b in binary64 for positive doubles: the significands aligned on the
\* smaller exponent, added as six 18-bit limbs, the sum rounded.  An
\* addend more than 54 binary places below the other cannot change it.
FAdd(a, b) ==
    LET Limb == 18
        hi == IF a.e >= b.e THEN a ELSE b
        lo == IF a.e >= b.e THEN b ELSE a
        d  == hi.e - lo.e
    IN  IF d > 54 THEN hi
        ELSE LET A == Zeros(6 * Limb - Precision - d) \o hi.m \o Zeros(d)
                 B == Zeros(6 * Limb - Precision) \o lo.m
                 L(s, i) == BitsVal(SubSeq(s, Limb * (i - 1) + 1, Limb * i))
                 t6 == L(A, 6) + L(B, 6)
                 t5 == L(A, 5) + L(B, 5) + t6 \div 2^Limb
                 t4 == L(A, 4) + L(B, 4) + t5 \div 2^Limb
                 t3 == L(A, 3) + L(B, 3) + t4 \div 2^Limb
                 t2 == L(A, 2) + L(B, 2) + t3 \div 2^Limb
                 t1 == L(A, 1) + L(B, 1) + t2 \div 2^Limb
                 sum == FixedBits(t1, Limb + 1)
                          \o FixedBits(t2 % 2^Limb, Limb)
                          \o FixedBits(t3 % 2^Limb, Limb)
                          \o FixedBits(t4 % 2^Limb, Limb)
                          \o FixedBits(t5 % 2^Limb, Limb)
                          \o FixedBits(t6 % 2^Limb, Limb)
             IN  FromBits(sum, lo.e - (Precision - 1) + 6 * Limb)

\* a < b and a <= b on positive doubles.
FLess(a, b) ==
    \/ a.e < b.e
    \/ /\ a.e = b.e
       /\ \E i \in 1..Precision :
            /\ a.m[i] < b.m[i]
            /\ \A j \in 1..(i - 1) : a.m[j] = b.m[j]

FLeq(a, b) == a = b \/ FLess(a, b)

\* numpy.round(x, 2) on a float64: rint(x * 100) / 100.
np_round(x) == FDivInt(Rint(FMul(x, 100)), 100)


(***************************************************************************)
(* The proleptic Gregorian calendar of datetime / timedelta.               *)
(***************************************************************************)
IsLeap(y) == (y % 4 = 0 /\ y % 100 # 0) \/ y % 400 = 0

DaysInMonth(y, m) ==
    IF m = 2 THEN (IF IsLeap(y) THEN 29 ELSE 28)
    ELSE IF m \in {4, 6, 9, 11} THEN 30 ELSE 31

RECURSIVE AddDays(_, _)
\* date + timedelta(days=k), k >= 0, a month at a time.
AddDays(dt, k) ==
    IF dt.d + k <= DaysInMonth(dt.y, dt.m) THEN [dt EXCEPT !.d = dt.d + k]
    ELSE AddDays(IF dt.m = 12 THEN [y |-> dt.y + 1, m |-> 1, d |-> 1]
                              ELSE [y |-> dt.y, m |-> dt.m + 1, d |-> 1],
                 k - (DaysInMonth(dt.y, dt.m) - dt.d + 1))

DateLeq(a, b) ==
    \/ a.y < b.y
    \/ a.y = b.y /\ a.m < b.m
    \/ a.y = b.y /\ a.m = b.m /\ a.d <= b.d


(***************************************************************************)
(* The random generator: numpy's global RandomState, a Mersenne Twister    *)
(* (MT19937).  np.random.seed(s) initialises its state from s alone, and   *)
(* every draw of the script consumes 32-bit output words of it in order.   *)
(* MT19937 lists, for the seeds 42, 43, ..., the first output words of the *)
(* generator so seeded, each as <<high 16 bits, low 16 bits>>.  A process  *)
(* that has not seeded the generator has it keyed from operating-system    *)
(* entropy: it then produces some other stream, here any of the listed.    *)
(***************************************************************************)
seed_value == 42

NumStreams == 3

MT19937 ==
  <<
    \* seed 42
    <<
       <<24545, 56422>>, <<52202, 15795>>, <<62306, 860>>, <<12021, 38158>>,
       <<47971, 62570>>, <<51097, 54343>>, <<39233, 44732>>, <<39115, 11284>>,
       <<10224, 54886>>, <<29218, 6265>>, <<10223, 16850>>, <<6551, 62678>>,
       <<3806, 37194>>, <<30097, 21962>>, <<56765, 47191>>, <<21869, 60788>>,
       <<39394, 44131>>, <<9362, 60263>>, <<46404, 16023>>, <<42656, 41090>>,
       <<1349, 1685>>, <<3696, 64820>>, <<63564, 769>>, <<47316, 59735>>,
       <<54554, 62955>>, <<61508, 64925>>, <<13915, 56101>>, <<51, 2433>>,
       <<11916, 5311>>, <<65025, 37819>>, <<12019, 39188>>, <<40467, 17568>>,
       <<19938, 53707>>, <<40085, 19769>>, <<34390, 28693>>, <<463, 6396>>,
       <<28307, 62187>>, <<1511, 27480>>, <<19085, 65072>>, <<34391, 41434>>,
       <<40098, 25658>>, <<26205, 18942>>, <<9141, 57001>>, <<3058, 18431>>,
       <<19145, 64987>>, <<63816, 2747>>, <<24009, 58319>>, <<15254, 59150>>,
       <<29889, 189>>, <<5937, 64445>>, <<51457, 19118>>, <<40526, 35773>>,
       <<13085, 53810>>, <<25065, 1899>>, <<33700, 56886>>, <<64437, 1267>>,
       <<38824, 31551>>, <<30589, 50680>>, <<3044, 11394>>, <<56357, 3556>>,
       <<39816, 3890>>, <<44584, 41606>>, <<11175, 30740>>, <<29523, 60232>>,
       <<4263, 14502>>, <<869, 21777>>, <<62186, 10627>>, <<61748, 8792>>,
       <<63283, 43323>>, <<36915, 43021>>, <<52979, 8433>>, <<25258, 43001>>,
       <<19963, 11016>>, <<1046, 23897>>, <<6401, 2612>>, <<15131, 56193>>,
       <<44841, 58707>>, <<15795, 55387>>, <<28845, 54638>>, <<44778, 23483>>,
       <<7997, 58822>>, <<39976, 48555>>, <<32451, 59900>>, <<54604, 17159>>,
       <<2253, 44974>>, <<11361, 40994>>, <<59593, 14541>>, <<25628, 35920>>,
       <<16959, 26531>>, <<11943, 1585>>, <<43419, 3943>>, <<49503, 23939>>,
       <<20428, 19457>>, <<27863, 1021>>, <<34083, 11653>>, <<13627, 43573>>
    >>,
    \* seed 43
    <<
       <<7540, 14148>>, <<32562, 19776>>, <<39915, 51455>>, <<6744, 40753>>,
       <<8741, 59669>>, <<9749, 63546>>, <<15767, 18448>>, <<11280, 57651>>,
       <<21439, 25233>>, <<53152, 5307>>, <<56304, 28507>>, <<4898, 16322>>,
       <<43652, 58222>>, <<2952, 38302>>, <<35465, 39767>>, <<40116, 45376>>,
       <<1901, 29475>>, <<38982, 44927>>, <<48086, 60850>>, <<16424, 379>>,
       <<25883, 29131>>, <<9657, 58457>>, <<52562, 62913>>, <<739, 42351>>,
       <<16673, 48674>>, <<30678, 25419>>, <<3728, 706>>, <<62569, 61667>>,
       <<56796, 44917>>, <<36423, 32900>>, <<14485, 23332>>, <<42580, 10480>>,
       <<26541, 25461>>, <<38068, 24268>>, <<20715, 45784>>, <<11067, 55036>>,
       <<5024, 10927>>, <<27254, 24608>>, <<55261, 37578>>, <<42795, 24892>>,
       <<55636, 4976>>, <<40669, 51273>>, <<63665, 61346>>, <<26461, 31024>>,
       <<25256, 4020>>, <<57263, 8132>>, <<62553, 21880>>, <<36376, 47644>>,
       <<29213, 14409>>, <<28109, 8327>>, <<43891, 4925>>, <<9154, 57428>>,
       <<5406, 47407>>, <<15088, 63080>>, <<58792, 16565>>, <<12920, 18336>>,
       <<19529, 62723>>, <<52329, 64418>>, <<17190, 26793>>, <<21779, 35307>>,
       <<336, 11161>>, <<27596, 61853>>, <<35599, 20976>>, <<29151, 53366>>,
       <<31168, 44794>>, <<54051, 63898>>, <<41705, 25269>>, <<10659, 46805>>,
       <<64107, 38421>>, <<25997, 49384>>, <<59550, 8010>>, <<57298, 20251>>,
       <<59647, 51898>>, <<63138, 64519>>, <<34423, 10207>>, <<52108, 48701>>,
       <<6816, 64611>>, <<7762, 57974>>, <<11856, 27443>>, <<61443, 39842>>,
       <<62458, 29102>>, <<10057, 3178>>, <<26997, 49204>>, <<30994, 33938>>,
       <<56689, 49943>>, <<39911, 18819>>, <<44051, 53115>>, <<17335, 9798>>,
       <<41208, 6936>>, <<60422, 38195>>, <<18059, 1286>>, <<61098, 1405>>,
       <<58769, 15020>>, <<8835, 44375>>, <<13558, 54564>>, <<52724, 27477>>
    >>,
    \* seed 44
    <<
       <<54712, 14100>>, <<28347, 3491>>, <<6867, 60145>>, <<2082, 25773>>,
       <<48800, 49723>>, <<41146, 53123>>, <<23625, 51296>>, <<12086, 4180>>,
       <<23547, 52099>>, <<19423, 19183>>, <<39927, 3050>>, <<16840, 41080>>,
       <<25806, 48279>>, <<44559, 37175>>, <<26808, 64406>>, <<18517, 56793>>,
       <<33416, 63171>>, <<60086, 11975>>, <<46540, 16963>>, <<13639, 18659>>,
       <<62949, 3046>>, <<41387, 23661>>, <<29925, 7925>>, <<52338, 43620>>,
       <<28026, 37365>>, <<34906, 43065>>, <<7435, 62721>>, <<11455, 17422>>,
       <<14280, 14456>>, <<11629, 63847>>, <<62748, 58276>>, <<48087, 23901>>,
       <<61823, 28373>>, <<26203, 64851>>, <<57791, 15456>>, <<33558, 16714>>,
       <<42363, 10660>>, <<2686, 2537>>, <<14013, 14623>>, <<31076, 64402>>,
       <<41735, 27720>>, <<709, 477>>, <<9119, 5821>>, <<52502, 52808>>,
       <<30061, 41290>>, <<9223, 26710>>, <<57269, 32634>>, <<19301, 62194>>,
       <<16937, 52368>>, <<55992, 58355>>, <<43571, 44660>>, <<52428, 21832>>,
       <<56536, 14771>>, <<25348, 40498>>, <<9754, 59410>>, <<54984, 28252>>,
       <<36893, 32029>>, <<23710, 28161>>, <<10430, 26175>>, <<59522, 32908>>,
       <<11330, 55170>>, <<14981, 47563>>, <<6817, 16301>>, <<31715, 38466>>,
       <<13299, 47049>>, <<43140, 30008>>, <<29831, 18737>>, <<14159, 62984>>,
       <<52073, 17129>>, <<64352, 34468>>, <<64934, 36386>>, <<6036, 31242>>,
       <<52757, 39803>>, <<43439, 8820>>, <<24734, 19398>>, <<17528, 1655>>,
       <<33799, 24117>>, <<33523, 51116>>, <<3859, 65517>>, <<26752, 33301>>,
       <<46602, 24043>>, <<25740, 43958>>, <<4751, 57138>>, <<63994, 33229>>,
       <<57842, 54587>>, <<15277, 24949>>, <<47582, 60625>>, <<52732, 56955>>,
       <<54615, 31979>>, <<41018, 55039>>, <<46545, 44431>>, <<48463, 46812>>,
       <<45706, 50280>>, <<3970, 64761>>, <<60955, 14269>>, <<5234, 47569>>
    >>,
    \* seed 45
    <<
       <<64815, 56267>>, <<19958, 6558>>, <<36014, 63107>>, <<44006, 6012>>,
       <<18444, 60960>>, <<27534, 12895>>, <<5065, 16317>>, <<62734, 32469>>,
       <<29128, 49315>>, <<59941, 57924>>, <<30985, 61817>>, <<31514, 36472>>,
       <<3179, 61455>>, <<47164, 49729>>, <<10703, 41358>>, <<23944, 46389>>,
       <<7598, 62009>>, <<3751, 8054>>, <<41116, 48584>>, <<14331, 48343>>,
       <<56110, 48942>>, <<20767, 47368>>, <<42605, 7349>>, <<60664, 49036>>,
       <<64927, 61346>>, <<39880, 15740>>, <<30824, 59416>>, <<53336, 55564>>,
       <<40520, 35857>>, <<53696, 35302>>, <<18524, 57540>>, <<15775, 54382>>,
       <<63963, 23166>>, <<37322, 35998>>, <<44110, 12088>>, <<41481, 41230>>,
       <<28870, 41450>>, <<336, 56356>>, <<18984, 62239>>, <<41877, 29270>>,
       <<33403, 44452>>, <<36380, 44729>>, <<7370, 15549>>, <<60462, 26831>>,
       <<14873, 46481>>, <<12074, 24070>>, <<31362, 26476>>, <<3988, 18986>>,
       <<15909, 26123>>, <<16809, 41192>>, <<25426, 53896>>, <<1111, 6193>>,
       <<53665, 45133>>, <<63399, 23419>>, <<4885, 6859>>, <<54245, 25341>>,
       <<60499, 34623>>, <<48007, 53290>>, <<14738, 51766>>, <<10709, 20368>>,
       <<46292, 49908>>, <<51647, 6649>>, <<7246, 1176>>, <<26429, 60783>>,
       <<39387, 26608>>, <<64088, 35049>>, <<26659, 36447>>, <<15044, 47423>>,
       <<54842, 29794>>, <<36731, 37142>>, <<16385, 65127>>, <<62657, 60955>>,
       <<29998, 20768>>, <<15278, 32656>>, <<36531, 59595>>, <<56812, 23226>>,
       <<16511, 52978>>, <<25242, 26940>>, <<7224, 50793>>, <<52836, 38898>>,
       <<47620, 58678>>, <<37273, 52192>>, <<20321, 377>>, <<26571, 198>>,
       <<54116, 40096>>, <<8914, 36328>>, <<29600, 27384>>, <<1320, 44176>>,
       <<6169, 32059>>, <<11810, 63974>>, <<58143, 49244>>, <<54148, 29567>>,
       <<48611, 39223>>, <<51740, 19544>>, <<7990, 62469>>, <<64141, 64251>>
    >>,
    \* seed 46
    <<
       <<51369, 15549>>, <<16911, 23365>>, <<41604, 30248>>, <<44840, 56692>>,
       <<16321, 18874>>, <<60118, 51603>>, <<49681, 17042>>, <<13430, 36555>>,
       <<20517, 53085>>, <<64860, 5436>>, <<61422, 51611>>, <<47108, 23504>>,
       <<2809, 15083>>, <<5737, 10882>>, <<28892, 44104>>, <<25825, 16928>>,
       <<59816, 11039>>, <<3280, 45879>>, <<29819, 8982>>, <<15037, 8802>>,
       <<33287, 64571>>, <<11956, 29007>>, <<5564, 34590>>, <<51227, 40290>>,
       <<27941, 17026>>, <<19011, 27250>>, <<48871, 20118>>, <<4009, 28375>>,
       <<56825, 3016>>, <<59634, 29304>>, <<21211, 50038>>, <<60152, 11260>>,
       <<6820, 40624>>, <<9853, 60162>>, <<52566, 62443>>, <<43200, 32363>>,
       <<25875, 46324>>, <<10536, 1192>>, <<41141, 26824>>, <<33665, 40140>>,
       <<2358, 35713>>, <<36436, 49564>>, <<19654, 49857>>, <<15679, 54520>>,
       <<3123, 80>>, <<56828, 51292>>, <<24393, 14779>>, <<13078, 64023>>,
       <<17197, 42101>>, <<29967, 26687>>, <<64915, 8208>>, <<62204, 51773>>,
       <<25896, 16081>>, <<55847, 18373>>, <<20154, 58528>>, <<6346, 42000>>,
       <<14490, 5526>>, <<11718, 19895>>, <<32376, 27806>>, <<28102, 58680>>,
       <<3792, 59532>>, <<30065, 20880>>, <<18985, 51258>>, <<17563, 43222>>,
       <<15397, 46438>>, <<40792, 3199>>, <<63139, 24637>>, <<24980, 37504>>,
       <<40348, 52626>>, <<28404, 50439>>, <<56530, 19866>>, <<37286, 11133>>,
       <<5903, 54217>>, <<27097, 1263>>, <<9764, 8944>>, <<56837, 28702>>,
       <<44077, 57212>>, <<35095, 60062>>, <<64159, 14074>>, <<57584, 41219>>,
       <<1521, 63967>>, <<6106, 16036>>, <<59488, 3634>>, <<48467, 58414>>,
       <<3804, 29558>>, <<50459, 50565>>, <<49523, 18997>>, <<47019, 3231>>,
       <<4233, 53366>>, <<34044, 30819>>, <<16759, 48884>>, <<7682, 671>>,
       <<11115, 27142>>, <<52287, 13603>>, <<12787, 56529>>, <<28827, 57040>>
    >>
  >>

WordBits == 16

\* The output word the generator keyed by `key` yields after pos words.
Word(key, pos) ==
    LET w == MT19937[key - seed_value + 1][pos + 1]
    IN  [hi |-> w[1], lo |-> w[2]]

\* gen_mask: the smallest 2^k - 1 that is >= range (range < 2^16).
GenMask(range) ==
    LET k == CHOOSE j \in 0..WordBits :
                 2^j - 1 >= range /\ (j = 0 \/ 2^(j - 1) - 1 < range)
    IN  2^k - 1

\* One step of np.random.randint(low, high): the word masked to the bits
\* of high - 1 - low; it is the result (plus low) unless it exceeds the
\* range, and then the word is rejected and the next one is tried.
Bounded(low, high, w) ==
    LET range == high - 1 - low
        v     == w.lo % (GenMask(range) + 1)
    IN  [ok |-> v <= range, val |-> low + v]

RECURSIVE RandInt(_, _, _, _)
\* np.random.randint(low, high) from position pos: the value drawn and
\* the position after it.
RandInt(key, pos, low, high) ==
    LET b == Bounded(low, high, Word(key, pos))
    IN  IF b.ok THEN [val |-> b.val, pos |-> pos + 1]
        ELSE RandInt(key, pos + 1, low, high)

RECURSIVE RandInts(_, _, _, _, _)
\* k successive randint draws (none for k <= 0).
RandInts(key, pos, low, high, k) ==
    IF k <= 0 THEN [vals |-> <<>>, pos |-> pos]
    ELSE LET r    == RandInt(key, pos, low, high)
             rest == RandInts(key, r.pos, low, high, k - 1)
         IN  [vals |-> <<r.val>> \o rest.vals, pos |-> rest.pos]

\* np.random.choice(options, k): options[randint(0, len(options))], k times.
Choices(key, pos, options, k) ==
    LET r == RandInts(key, pos, 0, Len(options), k)
    IN  [vals |-> [i \in 1..Len(r.vals) |-> options[r.vals[i] + 1]],
         pos  |-> r.pos]

\* The 53 bits of random_sample(): ((wa >> 5) * 2^26 + (wb >> 6)) / 2^53.
SampleBits(wa, wb) ==
    FixedBits(wa.hi * 2^11 + wa.lo \div 2^5, 27)
      \o FixedBits(wb.hi * 2^10 + wb.lo \div 2^6, 26)

UniformWide(low, high, wa, wb) ==
    LET u == SampleBits(wa, wb)
    IN  IF ~AnyOne(u) THEN FromInt(low)
        ELSE FAdd(FromInt(low), FMul(FromBits(u, -1), high))

\* np.random.uniform(low, high) = low + (high - low) * random_sample(),
\* both operations in binary64.
Uniform(low, high, wa, wb) ==
    LET u == SampleBits(wa, wb)
    IN  IF ~AnyOne(u) THEN FromInt(low)
        ELSE FAdd(FromInt(low), FMul(FromBits(u, -1), high - low))

(***************************************************************************)
(* The configuration constants of generate_bigdata.py.                     *)
(***************************************************************************)
start_date == [y |-> 2022, m |-> 1, d |-> 1]

window_days == 730

customer_low == 1000

customer_high == 50000

price_low == 5

price_high == 500

quantity_low == 1

quantity_high == 10

categories == <<"Electronics", "Fashion", "Home", "Sports", "Books">>

payment_methods == <<"Credit Card", "PayPal", "Bank Transfer", "Cash">>

countries == <<"Germany", "Austria", "Switzerland", "Netherlands", "Belgium">>

(***************************************************************************)
(* The fields of one record.                                               *)
(***************************************************************************)
DateRangeLeap == [low |-> 0, high |-> 2 * 366]

\* np.random.randint(0, 730): the day offset of a date.
DateRange == [low |-> 0, high |-> window_days]

\* start_date + timedelta(days=offset).
DateOf(offset) == AddDays(start_date, offset)

\* np.round(np.random.uniform(5, 500), 2), from the two words it consumes.
ProductPriceOf(wa, wb) == np_round(Uniform(price_low, price_high, wa, wb))

RECURSIVE ProductPrices(_, _, _)
\* k successive prices (none for k <= 0), two words each.
ProductPrices(key, pos, k) ==
    IF k <= 0 THEN [vals |-> <<>>, pos |-> pos]
    ELSE LET p    == ProductPriceOf(Word(key, pos), Word(key, pos + 1))
             rest == ProductPrices(key, pos + 2, k - 1)
         IN  [vals |-> <<p>> \o rest.vals, pos |-> rest.pos]

\* df['product_price'] * df['quantity']: float64 times int64, the integer
\* converted exactly, the product rounded to nearest.
TotalOf(product_price, quantity) == FMul(product_price, quantity)

TransactionIdsFromZero(k) == [i \in 1..k |-> i - 1]

\* range(1, n + 1), empty for n <= 0.
TransactionIds(k) == [i \in 1..k |-> i]


(***************************************************************************)
(* State.                                                                  *)
(*  The generator script (Spec):                                           *)
(*   run         which execution of the script on this machine             *)
(*   pc          the statement the script executes next                    *)
(*   n, seed     the configured row count and seed                         *)
(*   rng         numpy's global generator: its key and the values drawn    *)
(*   writable    whether the target can be opened for writing              *)
(*   dates, data, df   the script's objects (<<>> while unassigned)        *)
(*   file        what the target path holds                                *)
(*   error       the exception that ended the run ("" for none)            *)
(*   kept_output the file the last completed earlier run left              *)
(*  One record (SpecRecord): rec, rpc.                                     *)
(*  Palette calls (SpecPalette): call, result.                             *)
(***************************************************************************)
VARIABLES run, pc, n, seed, rng, writable, dates, data, df, file, error,
          kept_output, rec, rpc, call, result

genVars == <<run, pc, n, seed, rng, writable, dates, data, df, file, error,
             kept_output>>

recVars == <<rec, rpc>>

palVars == <<call, result>>

vars == <<genVars, recVars, palVars>>

MaxRows == 3

MaxRuns == 2

\* The script fixes n = 5_000_000 (line 11) and the seed 42 (line 8); the
\* model runs the same statements with line 11 set to each small row
\* count, zero and a negative one included, and line 8 to each seed of a
\* small range starting at 42.
RowCounts == -1..MaxRows

Seeds == seed_value..(seed_value + NumStreams - 1)

NoFile == [exists |-> FALSE, lines |-> <<>>]

\* The columns of the frame in order: the keys of `data`, then 'total'.
Header ==
    <<"transaction_id", "customer_id", "product_category", "product_price",
      "quantity", "date", "payment_method", "country", "total">>

\* Line i of the body of the CSV: the fields of row i in column order.
CsvRow(frame, i) == [c \in 1..Len(Header) |-> frame[Header[c]][i]]

\* What df.to_csv(path, index=False) writes when it completes.
CsvLines(frame) ==
    <<Header>> \o [i \in 1..Len(frame.transaction_id) |-> CsvRow(frame, i)]

\* The stage of the run, from the statement it is at.
Stage ==
    CASE pc = "seed"                       -> "CONFIGURED"
      [] pc \in {"dates", "data"}          -> "SYNTHESIZING"
      [] pc \in {"frame", "total"}         -> "DERIVING"
      [] pc \in {"open", "header", "rows"} -> "WRITING"
      [] pc = "done"                       -> "DONE"
      [] pc = "failed"                     -> "FAILED"

IdleRecord == rec = <<>> /\ rpc = "idle"

IdlePalette == call = <<>> /\ result = <<>>

IdleGenerator ==
    /\ run = 1 /\ pc = "idle" /\ n = 0 /\ seed = seed_value
    /\ rng = [key |-> seed_value, pos |-> 0] /\ writable = TRUE
    /\ dates = <<>> /\ data = <<>> /\ df = <<>>
    /\ file = NoFile /\ error = "" /\ kept_output = NoFile

\* A fresh process: nothing generated, no file at the target path, the
\* generator keyed from operating-system entropy until the script seeds it.
Init ==
    /\ run = 1
    /\ pc = "seed"
    /\ n \in RowCounts
    /\ seed \in Seeds
    /\ rng \in [key : Seeds, pos : {0}]
    /\ writable \in BOOLEAN
    /\ dates = <<>> /\ data = <<>> /\ df = <<>>
    /\ file = NoFile
    /\ error = ""
    /\ kept_output = NoFile
    /\ IdleRecord /\ IdlePalette

np_random_unseeded(s, g) == g

\* np.random.seed(s): the key is a function of s alone, the stream restarts.
np_random_seed(s, g) == [key |-> s, pos |-> 0]

\* Lines 8-14: seed the generator; n and start_date are constants.
SeedRng ==
    /\ pc = "seed"
    /\ rng' = np_random_seed(seed, rng)
    /\ pc' = "dates"
    /\ UNCHANGED <<run, n, seed, writable, dates, data, df, file, error,
                   kept_output, recVars, palVars>>

\* Line 16: one randint per row, in row order (no row for n <= 0).
GenDates ==
    /\ pc = "dates"
    /\ LET r == RandInts(rng.key, rng.pos, DateRange.low, DateRange.high, n)
       IN  /\ dates' = [i \in 1..Len(r.vals) |-> DateOf(r.vals[i])]
           /\ rng' = [rng EXCEPT !.pos = r.pos]
    /\ pc' = "data"
    /\ UNCHANGED <<run, n, seed, writable, data, df, file, error,
                   kept_output, recVars, palVars>>

\* Lines 19-28: the columns, each one vectorised call drawing n values, in
\* the order the dict literal evaluates them.  A negative n makes the
\* first sized call raise ValueError.
GenData ==
    /\ pc = "data"
    /\ IF n < 0
       THEN /\ pc' = "failed"
            /\ error' = "ValueError"
            /\ UNCHANGED <<rng, data>>
       ELSE LET c1 == RandInts(rng.key, rng.pos,
                               customer_low, customer_high, n)
                c2 == Choices(rng.key, c1.pos, categories, n)
                c3 == ProductPrices(rng.key, c2.pos, n)
                c4 == RandInts(rng.key, c3.pos,
                               quantity_low, quantity_high, n)
                c5 == Choices(rng.key, c4.pos, payment_methods, n)
                c6 == Choices(rng.key, c5.pos, countries, n)
            IN  /\ data' = [transaction_id   |-> TransactionIds(n),
                            customer_id      |-> c1.vals,
                            product_category |-> c2.vals,
                            product_price    |-> c3.vals,
                            quantity         |-> c4.vals,
                            date             |-> dates,
                            payment_method   |-> c5.vals,
                            country          |-> c6.vals]
                /\ rng' = [rng EXCEPT !.pos = c6.pos]
            /\ pc' = "frame"
            /\ UNCHANGED error
    /\ UNCHANGED <<run, n, seed, writable, dates, df, file, kept_output,
                   recVars, palVars>>

\* Line 31: df = pd.DataFrame(data).
BuildFrame ==
    /\ pc = "frame"
    /\ df' = data
    /\ pc' = "total"
    /\ UNCHANGED <<run, n, seed, rng, writable, dates, data, file, error,
                   kept_output, recVars, palVars>>

\* Line 32: df['total'] = df['product_price'] * df['quantity'].
ComputeTotal ==
    /\ pc = "total"
    /\ df' = [c \in DOMAIN df \cup {"total"} |->
                IF c = "total"
                THEN [i \in 1..Len(df.product_price) |->
                        TotalOf(df.product_price[i], df.quantity[i])]
                ELSE df[c]]
    /\ pc' = "open"
    /\ UNCHANGED <<run, n, seed, rng, writable, dates, data, file, error,
                   kept_output, recVars, palVars>>

\* An allocation fails while the columns or the frame are built.
OutOfMemory ==
    /\ pc \in {"dates", "data", "frame", "total"}
    /\ pc' = "failed"
    /\ error' = "MemoryError"
    /\ UNCHANGED <<run, n, seed, rng, writable, dates, data, df, file,
                   kept_output, recVars, palVars>>

\* Line 34, df.to_csv(target_path, index=False): the target itself is
\* opened for writing, which creates or truncates it; when it cannot be
\* opened the call raises OSError and the path is left as it was.
OpenTarget ==
    /\ pc = "open"
    /\ IF writable
       THEN /\ file' = [exists |-> TRUE, lines |-> <<>>]
            /\ pc' = "header"
            /\ UNCHANGED error
       ELSE /\ pc' = "failed"
            /\ error' = "OSError"
            /\ UNCHANGED file
    /\ UNCHANGED <<run, n, seed, rng, writable, dates, data, df,
                   kept_output, recVars, palVars>>

WriteHeader ==
    /\ pc = "header"
    /\ file' = [file EXCEPT !.lines = Append(@, Header)]
    /\ pc' = "rows"
    /\ UNCHANGED <<run, n, seed, rng, writable, dates, data, df, error,
                   kept_output, recVars, palVars>>

WriteRow ==
    /\ pc = "rows"
    /\ Len(file.lines) <= Len(df.transaction_id)
    /\ file' = [file EXCEPT !.lines = Append(@, CsvRow(df, Len(@)))]
    /\ UNCHANGED <<run, pc, n, seed, rng, writable, dates, data, df, error,
                   kept_output, recVars, palVars>>

\* Lines 35-39: to_csv returned, the script prints its summary and ends.
CloseFile ==
    /\ pc = "rows"
    /\ Len(file.lines) = Len(df.transaction_id) + 1
    /\ pc' = "done"
    /\ UNCHANGED <<run, n, seed, rng, writable, dates, data, df, file, error,
                   kept_output, recVars, palVars>>

\* A write fails (disk full) or the process is interrupted while the
\* target is open: the exception ends the script, the bytes already
\* written stay at the target path.
WriteFails ==
    /\ pc \in {"header", "rows"}
    /\ pc' = "failed"
    /\ error' \in {"OSError", "KeyboardInterrupt"}
    /\ UNCHANGED <<run, n, seed, rng, writable, dates, data, df, file,
                   kept_output, recVars, palVars>>

\* The script is started again with the same configuration on the same
\* machine: a new process (nothing in memory survives, the generator is
\* back on operating-system entropy), the same file system.
Restart ==
    /\ pc \in {"done", "failed"}
    /\ run < MaxRuns
    /\ run' = run + 1
    /\ pc' = "seed"
    /\ rng' \in [key : Seeds, pos : {0}]
    /\ dates' = <<>> /\ data' = <<>> /\ df' = <<>>
    /\ error' = ""
    /\ kept_output' = IF pc = "done" THEN file ELSE kept_output
    /\ UNCHANGED <<n, seed, writable, file, recVars, palVars>>

Next ==
    \/ SeedRng \/ GenDates \/ GenData \/ BuildFrame \/ ComputeTotal
    \/ OutOfMemory \/ OpenTarget \/ WriteHeader \/ WriteRow \/ CloseFile
    \/ WriteFails \/ Restart

Spec == Init /\ [][Next]_vars

(***************************************************************************)
(* SpecRecord: one record from arbitrary generator outputs.  The outputs   *)
(* are taken from both ends of the generator's range and from a grid       *)
(* across it; the fields are computed as the script computes them (date,   *)
(* line 16; product_price and quantity, lines 23-24; total, line 32).      *)
(***************************************************************************)
DateWindow == 2

PriceWindow == 2

PriceSamples == 60

PriceStride == 1021

WordMax == 2^WordBits - 1

DateWords ==
    {[hi |-> 0, lo |-> l] :
        l \in (0..DateWindow)
                \cup ((window_days \div 2 - 1)..(window_days \div 2))
                \cup ((window_days - 1 - DateWindow)
                        ..(window_days + 1 + DateWindow))}
      \cup {[hi |-> WordMax, lo |-> WordMax - l] : l \in 0..DateWindow}

PriceWords ==
    {[hi |-> h, lo |-> l] :
        h \in {i * PriceStride : i \in 0..PriceSamples}
                \cup ((WordMax - PriceWindow)..WordMax),
        l \in {0, WordMax}}

PriceTailWords == {[hi |-> 0, lo |-> 0], [hi |-> WordMax, lo |-> WordMax]}

QuantityWords == {[hi |-> 0, lo |-> l] : l \in 0..(2 * quantity_high)}

InitRecord ==
    /\ rec = <<>>
    /\ rpc = "date"
    /\ IdleGenerator /\ IdlePalette

\* A word the draw accepts gives the value; a rejected one gives none.
RecDate ==
    /\ rpc = "date"
    /\ \E w \in DateWords :
         LET b == Bounded(DateRange.low, DateRange.high, w)
         IN  b.ok /\ rec' = [date |-> DateOf(b.val)]
    /\ rpc' = "price"
    /\ UNCHANGED <<genVars, palVars>>

RecPrice ==
    /\ rpc = "price"
    /\ \E wa \in PriceWords, wb \in PriceTailWords :
         rec' = [date |-> rec.date,
                 product_price |-> ProductPriceOf(wa, wb)]
    /\ rpc' = "quantity"
    /\ UNCHANGED <<genVars, palVars>>

RecQuantity ==
    /\ rpc = "quantity"
    /\ \E w \in QuantityWords :
         LET b == Bounded(quantity_low, quantity_high, w)
         IN  b.ok /\ rec' = [date |-> rec.date,
                             product_price |-> rec.product_price,
                             quantity |-> b.val]
    /\ rpc' = "total"
    /\ UNCHANGED <<genVars, palVars>>

RecTotal ==
    /\ rpc = "total"
    /\ rec' = [date |-> rec.date, product_price |-> rec.product_price,
               quantity |-> rec.quantity,
               total |-> TotalOf(rec.product_price, rec.quantity)]
    /\ rpc' = "done"
    /\ UNCHANGED <<genVars, palVars>>

NextRecord == RecDate \/ RecPrice \/ RecQuantity \/ RecTotal

SpecRecord == InitRecord /\ [][NextRecord]_vars

(***************************************************************************)
(* SpecPalette: the palette functions of plot_arrakis_night_style.py.      *)
(* An optional argument is <<>> for None and <<k>> for the integer k.      *)
(***************************************************************************)
COLOR_CYCLE ==
    <<"#7BA898", "#8EC4D4", "#4A7088", "#CCA361", "#8FBA70",
      "#4A7858", "#6BA8B0", "#D4A868", "#5A9A78", "#7AA0B0">>

\* [c for i, c in enumerate(cycle) if i != k], k counted from 0.
WithoutIndex(cycle, k) ==
    [j \in 1..(Len(cycle) - 1) |-> IF j <= k THEN cycle[j] ELSE cycle[j + 1]]

\* [palette[i % len(palette)] for i in range(k)], empty for k <= 0.
Cycled(palette, k) ==
    [i \in 1..k |-> palette[((i - 1) % Len(palette)) + 1]]

get_palette_truncating(n_arg, include_accent) ==
    LET palette == IF include_accent THEN COLOR_CYCLE
                   ELSE WithoutIndex(COLOR_CYCLE, 5)
    IN  IF n_arg = <<>> THEN palette
        ELSE SubSeq(palette, 1,
                    IF n_arg[1] > Len(palette) THEN Len(palette)
                    ELSE n_arg[1])

get_palette(n_arg, include_accent) ==
    LET palette == IF include_accent THEN COLOR_CYCLE
                   ELSE WithoutIndex(COLOR_CYCLE, 5)
    IN  IF n_arg = <<>> THEN palette
        ELSE Cycled(palette, n_arg[1])

get_water_palette(n_arg) == get_palette(n_arg, FALSE)

MaxPaletteN == 40

PaletteArgs == {<<>>} \cup {<<k>> : k \in -2..MaxPaletteN}

InitPalette ==
    /\ call = <<>>
    /\ result = <<>>
    /\ IdleGenerator /\ IdleRecord

CallGetPalette ==
    /\ \E a \in PaletteArgs, acc \in BOOLEAN :
         /\ call' = [fn |-> "get_palette", n |-> a, include_accent |-> acc]
         /\ result' = get_palette(a, acc)
    /\ UNCHANGED <<genVars, recVars>>

CallGetWaterPalette ==
    /\ \E a \in PaletteArgs :
         /\ call' = [fn |-> "get_water_palette", n |-> a,
                     include_accent |-> FALSE]
         /\ result' = get_water_palette(a)
    /\ UNCHANGED <<genVars, recVars>>

NextPalette == CallGetPalette \/ CallGetWaterPalette

SpecPalette == InitPalette /\ [][NextPalette]_vars

(***************************************************************************)
(* Properties.                                                             *)
(***************************************************************************)
\* C1 (SpecRecord): the stored total of a record equals
\* round(product_price * quantity, 2), product_price being the record's
\* two-decimal price.
C1_TotalIsRoundedProduct ==
    rpc = "done" =>
        rec.total = np_round(TotalOf(rec.product_price, rec.quantity))

\* C2 (Spec): a run that completes with the configuration (n, seed, date
\* window) of an earlier completed run leaves a file identical to the one
\* that run left.
C2_SameConfigurationSameFile ==
    (run > 1 /\ pc = "done" /\ kept_output.exists) => file = kept_output

C2_Witness ==
    /\ run > 1 /\ pc = "done" /\ kept_output.exists
    /\ n >= 2
    /\ file = kept_output
    /\ file.lines[2] # file.lines[3]

\* C3 (Spec): a run configured with n <= 0 does no generation work: it
\* stays CONFIGURED or is FAILED with InvalidConfiguration, and no file
\* appears at the target path.
C3_NonPositiveRowCountRejected ==
    n <= 0 =>
        /\ Stage \in {"CONFIGURED", "FAILED"}
        /\ Stage = "FAILED" => error = "InvalidConfiguration"
        /\ ~file.exists

\* C4 (Spec): when the write stage fails or is interrupted, the target
\* path holds what it held before the run or the complete output, never a
\* partially written file.
C4_NoPartialFileAfterWriteFailure ==
    (pc = "failed" /\ error \in {"OSError", "KeyboardInterrupt"}) =>
        \/ file = kept_output
        \/ file.lines = CsvLines(df)

\* C5 (Spec): after a successful run with n >= 1 the file is the header
\* line followed by exactly n data lines whose transaction_id values are
\* 1, 2, ..., n in that order.
C5_ContiguousTransactionIds ==
    (pc = "done" /\ n >= 1) =>
        /\ Len(file.lines) = n + 1
        /\ file.lines[1] = Header
        /\ \A i \in 1..n : file.lines[i + 1][1] = i

C5_Witness ==
    /\ pc = "done" /\ n = 3
    /\ Len(file.lines) = 4
    /\ <<file.lines[2][1], file.lines[3][1], file.lines[4][1]>> = <<1, 2, 3>>

StageSteps ==
    {<<"CONFIGURED", "SYNTHESIZING">>, <<"SYNTHESIZING", "DERIVING">>,
     <<"DERIVING", "WRITING">>, <<"WRITING", "DONE">>,
     <<"CONFIGURED", "FAILED">>, <<"SYNTHESIZING", "FAILED">>,
     <<"DERIVING", "FAILED">>, <<"WRITING", "FAILED">>}

\* The order of the stages alone: within a run the stage changes only
\* along CONFIGURED, SYNTHESIZING, DERIVING, WRITING, DONE or from a
\* non-terminal stage to FAILED, and DONE and FAILED are left by no step.
StageOrderOnly ==
    [][run' = run => (Stage' = Stage \/ <<Stage, Stage'>> \in StageSteps)]_vars

\* C6 (Spec): within a run the stages follow CONFIGURED, SYNTHESIZING,
\* DERIVING, WRITING, DONE with none skipped or revisited, DONE and FAILED
\* are terminal, and each non-terminal stage goes to FAILED on its error
\* condition: CONFIGURED on a row count n <= 0, WRITING on a target that
\* cannot be opened.
C6_StageMachine ==
    [][run' = run =>
         /\ Stage' = Stage \/ <<Stage, Stage'>> \in StageSteps
         /\ (Stage = "CONFIGURED" /\ n <= 0 /\ Stage' # Stage)
              => Stage' = "FAILED"
         /\ (pc = "open" /\ ~writable /\ Stage' # Stage)
              => Stage' = "FAILED"]_vars

\* C7 as stated (SpecRecord): the two-decimal product_price of a record
\* lies in [5.00, 500.00), so it is never 500.00.
C7_PriceBelow500 ==
    rpc \in {"quantity", "total", "done"} =>
        /\ FLeq(FromInt(price_low), rec.product_price)
        /\ FLess(rec.product_price, FromInt(price_high))

\* C7 amended (SpecRecord): the two-decimal product_price of a record lies
\* in the closed range [5.00, 500.00].
C7_PriceWithinClosedRange ==
    rpc \in {"quantity", "total", "done"} =>
        /\ FLeq(FromInt(price_low), rec.product_price)
        /\ FLeq(rec.product_price, FromInt(price_high))

C7_Witness ==
    /\ rpc \in {"quantity", "total", "done"}
    /\ rec.product_price = FromInt(price_high)

\* C8 (SpecRecord): the date of a record lies within
\* [start_date, start_date + window_days], both ends included.
C8_DateWithinWindow ==
    rpc \in {"price", "quantity", "total", "done"} =>
        /\ DateLeq(start_date, rec.date)
        /\ DateLeq(rec.date, AddDays(start_date, window_days))

C8_Witness ==
    /\ rpc \in {"price", "quantity", "total", "done"}
    /\ rec.date = [y |-> 2023, m |-> 12, d |-> 31]

\* C9 (SpecPalette): for an integer n >= 0, get_palette(n) with the
\* default include_accent returns exactly n colours, the i-th (from 0)
\* being COLOR_CYCLE[i mod 10].
C9_PaletteCycles ==
    (/\ call # <<>>
     /\ call.fn = "get_palette" /\ call.include_accent
     /\ call.n # <<>> /\ call.n[1] >= 0) =>
        /\ Len(result) = call.n[1]
        /\ \A i \in 0..(call.n[1] - 1) : result[i + 1] = COLOR_CYCLE[(i % 10) + 1]

C9_Witness ==
    /\ call # <<>>
    /\ call.fn = "get_palette" /\ call.include_accent
    /\ call.n = <<15>>
    /\ Len(result) = 15
    /\ SubSeq(result, 11, 15) = SubSeq(COLOR_CYCLE, 1, 5)

\* C10 (SpecPalette): get_palette(n, include_accent=False) and
\* get_water_palette(n) never return the gold sand accent '#CCA361': the
\* result is COLOR_CYCLE without that entry, cycled to length n (whole
\* for n = None).
C10_WaterPaletteHasNoGold ==
    (call # <<>> /\ ~call.include_accent) =>
        /\ \A i \in 1..Len(result) : result[i] # "#CCA361"
        /\ result = IF call.n = <<>> THEN WithoutIndex(COLOR_CYCLE, 3)
                    ELSE Cycled(WithoutIndex(COLOR_CYCLE, 3), call.n[1])
====
